---- MODULE Spec2Model ----
(***************************************************************************)
(* The delivery engine of log_loki (src/src/task.rs): the LokiTask thread  *)
(* that receives Log and Flush messages, batches log lines, pushes a batch *)
(* to Loki over HTTP and keeps failed batches in a retry heap.             *)
(*                                                                         *)
(* A clock reading is the number of whole units of time since the epoch;   *)
(* the unit is a second, or the 250 ms of the receive timeout (task.rs:93) *)
(* where a property depends on the timeout itself.  With seconds, the      *)
(* reading the engine finds when a wait ends, by a message or by the       *)
(* timeout, is the one before the wait or the next; with units of 250 ms a *)
(* wait that ends by timeout moves the clock by exactly one reading.  An   *)
(* HTTP call and the handling of a message take no model time.             *)
(*                                                                         *)
(* The logfmt formatter (src/src/logfmt.rs) is modelled beside it: a       *)
(* string is the sequence of its characters, a HashMap<String, String> a   *)
(* function from keys to values.                                           *)
(***************************************************************************)
EXTENDS Integers, Sequences, FiniteSets, TLC

VARIABLES
    chan,             \* rx: the messages sent and not yet received, oldest first
    closed,           \* every sender of the channel has been dropped
    lp,               \* run's open LokiPush: values, first, failures
    dlq,              \* run's BinaryHeap<Reverse<FailedPush>>, as its backing array
    flushed,          \* the bool of flush_notif
    status,           \* the thread: "running", "returned" or "panicked"
    now,              \* the clock reading
    max_log_lines,    \* LokiTask.max_log_lines
    max_log_lifetime, \* LokiTask.max_log_lifetime, in clock readings
    failure_policy,   \* LokiTask.failure_policy
    overflow_checks,  \* the build panics on integer overflow (debug) or wraps (release)
    reset_on_wake,    \* the waiter of flush() clears the flag when it wakes
    waiting,          \* per producer: the Flush it waits for in flush(), 0 when not waiting
    nlogs,            \* Log messages sent so far
    nflush,           \* flush() calls so far
    done,             \* the Flush messages the engine has finished, by call number
    returned,         \* the flush() calls that have returned, by call number
    last,             \* the engine step just taken: its kind and its delivery attempts
    lim,              \* the run: its bounds (logs, flushes, time), its backend (resps)
                      \* and its unit of time (second, poll)
    formatter,        \* the LogfmtFormatter: include_fields, escape_newlines
    attributes,       \* the HashMap<String, String> that write_pair fills
    written           \* the formatter call just made: its kind and its arguments

\* The variables of the engine and of its producers.
taskvars == <<chan, closed, lp, dlq, flushed, status, now, max_log_lines, max_log_lifetime,
              failure_policy, overflow_checks, reset_on_wake, waiting, nlogs, nflush, done,
              returned, last, lim>>

\* The variables of the formatter.
fmtvars == <<formatter, attributes, written>>

vars == <<taskvars, fmtvars>>

\* What no step of the engine or of a producer changes: the configuration, the
\* bounds of the run and the formatter.
cfgvars == <<max_log_lines, max_log_lifetime, failure_policy, overflow_checks, reset_on_wake,
             lim, fmtvars>>

-----------------------------------------------------------------------------
(* Bounds of the model *)

MaxLogs == 2         \* Log messages sent in one run
MaxFlushes == 1      \* flush() calls in one run
MaxTime == 2         \* the clock stops advancing here
FlushCalls == 2      \* flush() calls in a run of the flush handshake
AgeLogs == 4         \* Log messages sent in a run of the age check
AgeTime == 3         \* the clock stops advancing here in a run of the age check
MaxCode == 600       \* the status codes of a failed request range over 400..MaxCode
OrderLogs == 5       \* Log messages sent in a run of the retry order
OrderFlushes == 2    \* flush() calls in a run of the retry order
OrderTime == 2       \* the clock stops advancing here in a run of the retry order
SizeLogs == 4        \* Log messages sent in a run of the size limit
SizeTime == 2        \* the clock stops advancing here in a run of the size limit
SkewLogs == 2        \* Log messages sent in a run with a timestamp ahead of the clock
SkewTime == 2        \* the clock stops advancing here in such a run
MaxSkew == 1         \* the most a Log timestamp is ahead of the engine's clock
MaxKeyLen == 2       \* the longest key given to write_pair
MaxValLen == 2       \* the longest value given to write_pair
CloseLogs == 1       \* Log messages sent in a run that ends by closure
CloseFlushes == 1    \* flush() calls in a run that ends by closure
CloseTime == 1       \* the clock stops advancing here in a run that ends by closure

LineLimits == {1, 2} \* the max_log_lines the engine is built with
Producers == {1, 2}  \* the producer threads

(* Units of time: the clock readings in a second, and in a receive timeout *)
(* (none when the timeout is shorter than the unit).                       *)

Seconds == [second |-> 1, poll |-> 0]
Quarters == [second |-> 4, poll |-> 1]

\* 1_000_000_000 ns, in clock readings
NanosPerSec == lim.second

None == -1           \* Option::None of lp.first

-----------------------------------------------------------------------------
(* src/src/logfmt.rs: LogfmtFormatter *)

\* const INVALID_KEY_CHARS
INVALID_KEY_CHARS == {" ", "=", "\""}

\* bitflags LogfmtAutoFields, a set of flags; the build is without kv_unstable.
LogfmtAutoFields == {"LEVEL", "MESSAGE", "TARGET", "MODULE_PATH", "FILE", "LINE"}

LogfmtAutoFields_default == {"LEVEL", "MODULE_PATH"}

LogfmtFormatter_new(include_fields, escape_newlines) ==
    [include_fields |-> include_fields, escape_newlines |-> escape_newlines]

\* #[derive(Default)]: the default fields, escape_newlines false.
LogfmtFormatter_default == LogfmtFormatter_new(LogfmtAutoFields_default, FALSE)

\* HashMap::new()
EmptyMap == [key \in {} |-> <<>>]

insert(map, key, value) ==
    [k \in DOMAIN map \cup {key} |-> IF k = key THEN value ELSE map[k]]

\* char::is_control, on the characters of the model: those of category Cc.
is_control(chr) == chr \in {"\n", "\r", "\t", "\f"}

\* The scalar value of a control character of the model.
CodePoint(chr) ==
    CASE chr = "\t" -> 9
      [] chr = "\n" -> 10
      [] chr = "\f" -> 12
      [] chr = "\r" -> 13

HexDigit(d) == <<"0", "1", "2", "3", "4", "5", "6", "7", "8", "9",
                 "a", "b", "c", "d", "e", "f">>[d + 1]

RECURSIVE Hex(_)
Hex(n) == IF n < 16 THEN <<HexDigit(n)>> ELSE Hex(n \div 16) \o <<HexDigit(n % 16)>>

\* chr.escape_unicode().to_string(): \u{NNNN}, in lower-case hexadecimal.
escape_unicode(chr) == <<"\\", "u", "{">> \o Hex(CodePoint(chr)) \o <<"}">>

\* key.retain(..); if key.is_empty() { key.push('_') }
Normalized(key) ==
    LET kept == SelectSeq(key, LAMBDA c : c \notin INVALID_KEY_CHARS)
    IN  IF kept = <<>> THEN <<"_">> ELSE kept

\* One turn of the loop over val.chars(): what is pushed and whether quotes are needed.
Reformat(chr, escape_newlines) ==
    IF chr \in {"\\", "\""} THEN [need_quotes |-> TRUE, pushed |-> <<"\\", chr>>]
    ELSE IF chr \in {" ", "="} THEN [need_quotes |-> TRUE, pushed |-> <<chr>>]
    ELSE IF chr \in {"\n", "\r", "\t"}
    THEN [need_quotes |-> TRUE,
          pushed |-> IF escape_newlines THEN <<"\\", chr>> ELSE <<chr>>]
    ELSE IF ~is_control(chr) THEN [need_quotes |-> FALSE, pushed |-> <<chr>>]
    ELSE [need_quotes |-> TRUE, pushed |-> escape_unicode(chr)]

\* The loop over val.chars(), from formatted_value acc and need_quotes q.
RECURSIVE FormatChars(_, _, _, _)
FormatChars(val, acc, q, escape_newlines) ==
    IF val = <<>>
    THEN [formatted_value |-> acc, need_quotes |-> q]
    ELSE LET r == Reformat(Head(val), escape_newlines)
         IN  FormatChars(Tail(val), acc \o r.pushed, q \/ r.need_quotes, escape_newlines)

\* formatted_value when write_pair inserts it.
formatted_value(val, escape_newlines) ==
    LET r == FormatChars(val, <<>>, FALSE, escape_newlines)
    IN  IF r.need_quotes THEN r.formatted_value \o <<"\"">> ELSE r.formatted_value

\* write_pair that inserts whether or not the key is there.
write_pair_Overwrites(self, map, key, val) ==
    insert(map, Normalized(key), formatted_value(val, self.escape_newlines))

\* write_pair(&self, attributes, key, val): the map left.
write_pair(self, map, key, val) ==
    IF Normalized(key) \in DOMAIN map
    THEN map
    ELSE insert(map, Normalized(key), formatted_value(val, self.escape_newlines))

\* Option<Cow<str>>
NoStr == [some |-> FALSE, str |-> <<>>]
SomeStr(str) == [some |-> TRUE, str |-> str]

\* The keys of the fields that attributes writes by itself.
FieldKey ==
    [LEVEL |-> <<"l", "e", "v", "e", "l">>,
     MESSAGE |-> <<"m", "e", "s", "s", "a", "g", "e">>,
     TARGET |-> <<"t", "a", "r", "g", "e", "t">>,
     MODULE_PATH |-> <<"m", "o", "d", "u", "l", "e">>,
     FILE |-> <<"f", "i", "l", "e">>,
     LINE |-> <<"l", "i", "n", "e">>]

\* write_pair when cond holds, nothing otherwise.
WriteIf(cond, self, map, field, val) ==
    IF cond THEN write_pair(self, map, FieldKey[field], val) ELSE map

\* attributes that writes the message even when it is empty.
attributes_of_EmptyMessageToo(self, rec) ==
    LET has(flag) == flag \in self.include_fields
        a1 == WriteIf(has("LEVEL"), self, EmptyMap, "LEVEL", rec.level)
        a2 == WriteIf(has("MESSAGE"), self, a1, "MESSAGE", rec.message)
        a3 == WriteIf(has("TARGET") /\ rec.target # <<>>, self, a2, "TARGET", rec.target)
        a4 == WriteIf(has("MODULE_PATH") /\ rec.module.some, self, a3, "MODULE_PATH",
                      rec.module.str)
        a5 == WriteIf(has("FILE") /\ rec.file.some, self, a4, "FILE", rec.file.str)
    IN  WriteIf(has("LINE") /\ rec.line.some, self, a5, "LINE", rec.line.str)

\* attributes(&self, rec), for a record without structured key-values: the map returned.
attributes_of(self, rec) ==
    LET has(flag) == flag \in self.include_fields
        a1 == WriteIf(has("LEVEL"), self, EmptyMap, "LEVEL", rec.level)
        a2 == WriteIf(has("MESSAGE") /\ rec.message # <<>>, self, a1, "MESSAGE", rec.message)
        a3 == WriteIf(has("TARGET") /\ rec.target # <<>>, self, a2, "TARGET", rec.target)
        a4 == WriteIf(has("MODULE_PATH") /\ rec.module.some, self, a3, "MODULE_PATH",
                      rec.module.str)
        a5 == WriteIf(has("FILE") /\ rec.file.some, self, a4, "FILE", rec.file.str)
    IN  WriteIf(has("LINE") /\ rec.line.some, self, a5, "LINE", rec.line.str)

NoRecord ==
    [level |-> <<>>, message |-> <<>>, target |-> <<>>, module |-> NoStr, file |-> NoStr,
     line |-> NoStr]

NoCall == [op |-> "none", key |-> <<>>, val |-> <<>>, rec |-> NoRecord]

\* self.write_pair(&mut attributes, key, val)
WritePair(key, val) ==
    /\ attributes' = write_pair(formatter, attributes, key, val)
    /\ written' = [op |-> "write_pair", key |-> key, val |-> val, rec |-> NoRecord]
    /\ UNCHANGED <<taskvars, formatter>>

\* let mut attributes = HashMap::new()
NewAttributes ==
    /\ attributes' = EmptyMap
    /\ written' = NoCall
    /\ UNCHANGED <<taskvars, formatter>>

\* formatter.attributes(&rec)
Attributes(rec) ==
    /\ attributes' = attributes_of(formatter, rec)
    /\ written' = [op |-> "attributes", key |-> <<>>, val |-> <<>>, rec |-> rec]
    /\ UNCHANGED <<taskvars, formatter>>

-----------------------------------------------------------------------------
(* Messages and responses *)

\* Log(time, line): the line is named by its number among the lines sent.
LogMsg(time, line) == [kind |-> "Log", time |-> time, id |-> line, logs |-> line]
\* Flush, tagged with the number of the flush() call that sent it and with the
\* number of Log messages sent before it.
FlushMsg(call, logs) == [kind |-> "Flush", time |-> 0, id |-> call, logs |-> logs]
NoMsg == [kind |-> "none", time |-> 0, id |-> 0, logs |-> 0]

Ok == [kind |-> "ok", code |-> 0]
StatusCode(code) == [kind |-> "status", code |-> code]
Transport == [kind |-> "transport", code |-> 0]
SerializeErr == [kind |-> "serialize", code |-> 0]

\* The outcomes of one delivery attempt the engine is run against: delivered, a
\* failure that is not transient and a transient one.
Backend == {Ok, StatusCode(400), StatusCode(503)}

\* The outcomes of a delivery attempt in this run.
Responses == lim.resps

EmptyPush == [values |-> <<>>, first |-> None, failures |-> 0]

-----------------------------------------------------------------------------
(* std::collections::BinaryHeap<Reverse<FailedPush>>, on its backing array. *)
(* Positions are the array's, counted from 0; data[i + 1] is position i.    *)

\* Reverse(a) <= Reverse(b); FailedPush is ordered by retry_at alone.
RevLe(a, b) == b.retry_at <= a.retry_at

Swap(data, i, j) == [data EXCEPT ![i + 1] = data[j + 1], ![j + 1] = data[i + 1]]

RECURSIVE SiftUp(_, _, _)
SiftUp(data, start, pos) ==
    IF pos > start
    THEN LET parent == (pos - 1) \div 2
         IN  IF RevLe(data[pos + 1], data[parent + 1])
             THEN data
             ELSE SiftUp(Swap(data, pos, parent), start, parent)
    ELSE data

RECURSIVE SiftDownToBottom(_, _)
SiftDownToBottom(data, pos) ==
    LET end == Len(data)
        child == 2 * pos + 1
    IN  IF end >= 2 /\ child <= end - 2
        THEN LET c == IF RevLe(data[child + 1], data[child + 2]) THEN child + 1 ELSE child
             IN  SiftDownToBottom(Swap(data, pos, c), c)
        ELSE IF child = end - 1
        THEN SiftUp(Swap(data, pos, child), 0, child)
        ELSE SiftUp(data, 0, pos)

HeapPush(data, item) == SiftUp(Append(data, item), 0, Len(data))

\* pop of a non-empty heap: the item popped and the array left.
HeapPop(data) ==
    LET n == Len(data)
        rest == SubSeq(data, 1, n - 1)
    IN  IF rest = <<>>
        THEN [item |-> data[n], data |-> <<>>]
        ELSE [item |-> data[1],
              data |-> SiftDownToBottom([rest EXCEPT ![1] = data[n]], 0)]

-----------------------------------------------------------------------------
(* LokiTask::submit_logs and LokiTask::fail *)

\* The classification without the two retryable 4xx codes.
Transistent_ServerErrorsOnly(resp) ==
    IF resp.kind = "status"
    THEN resp.code >= 500
    ELSE TRUE

\* The classification of a failed request.send: (emsg, transistent).
Transistent(resp) ==
    IF resp.kind = "status"
    THEN resp.code = 408 \/ resp.code = 429 \/ resp.code >= 500
    ELSE TRUE

\* 1 << failures, a u128: the model's failures stay far below 128.
Shl1(failures) == 2 ^ failures

\* fail that retries whatever the failure: the test of transistent is lost.
fail_IgnoresTransient(push, heap, transistent, time) ==
    IF failure_policy.kind = "Drop"
    THEN [lp |-> push, dlq |-> heap]
    ELSE IF push.failures > failure_policy.max_retries
    THEN [lp |-> push, dlq |-> heap]
    ELSE LET lpc == [push EXCEPT !.failures = @ + 1]
             retry_at == time + Shl1(lpc.failures) * NanosPerSec
         IN  [lp |-> [push EXCEPT !.values = <<>>, !.first = None],
              dlq |-> HeapPush(heap, [retry_at |-> retry_at, push |-> lpc])]

\* fail with a backoff that grows by one second a failure, not by doubling.
fail_LinearBackoff(push, heap, transistent, time) ==
    IF failure_policy.kind = "Drop" \/ ~transistent
    THEN [lp |-> push, dlq |-> heap]
    ELSE IF push.failures > failure_policy.max_retries
    THEN [lp |-> push, dlq |-> heap]
    ELSE LET lpc == [push EXCEPT !.failures = @ + 1]
             retry_at == time + lpc.failures * NanosPerSec
         IN  [lp |-> [push EXCEPT !.values = <<>>, !.first = None],
              dlq |-> HeapPush(heap, [retry_at |-> retry_at, push |-> lpc])]

\* fail(lp, dlq, emsg, transistent) at clock reading time: the push and the heap left.
fail(push, heap, transistent, time) ==
    IF failure_policy.kind = "Drop" \/ ~transistent
    THEN [lp |-> push, dlq |-> heap]
    ELSE IF push.failures > failure_policy.max_retries
    THEN [lp |-> push, dlq |-> heap]
    ELSE LET lpc == [push EXCEPT !.failures = @ + 1]
             retry_at == time + Shl1(lpc.failures) * NanosPerSec
         IN  [lp |-> [push EXCEPT !.values = <<>>, !.first = None],
              dlq |-> HeapPush(heap, [retry_at |-> retry_at, push |-> lpc])]

\* submit_logs(lp, dlq) when serialization or the request ends in resp: the push and
\* the heap left, and whether the submission was tried (first was set).
submit_logs(push, heap, resp, time) ==
    IF push.first = None
    THEN [lp |-> push, dlq |-> heap, sent |-> FALSE]
    ELSE IF resp.kind = "serialize"
    THEN LET r == fail(push, heap, FALSE, time)
         IN  [lp |-> r.lp, dlq |-> r.dlq, sent |-> TRUE]
    ELSE IF resp.kind = "ok"
    THEN [lp |-> [push EXCEPT !.values = <<>>, !.first = None], dlq |-> heap, sent |-> TRUE]
    ELSE LET r == fail(push, heap, Transistent(resp), time)
         IN  [lp |-> r.lp, dlq |-> r.dlq, sent |-> TRUE]

\* Where a submitted push was taken from: the open batch, or an entry of the retry
\* heap, with the entries that were still queued behind it, in the order in which
\* the heap gives them up.
FromOpen == [retry_at |-> None, queued |-> <<>>]
FromQueue(item, rest) == [retry_at |-> item.retry_at, queued |-> rest]

\* The record of one delivery attempt: what was submitted, from where, how it ended,
\* and the caller's push and the heap before and after.
Attempt(src, push, heap, resp, time, r, from) ==
    [src |-> src, push |-> push, resp |-> resp, at |-> time,
     lpAfter |-> r.lp, dlqBefore |-> heap, dlqAfter |-> r.dlq,
     retry_at |-> from.retry_at, queued |-> from.queued]

NoStep == [op |-> "none", msg |-> NoMsg, tr |-> <<>>, poll |-> 0]

\* The attempts so far, with the one of r when a request was sent.
Noted(tr, src, push, heap, resp, time, r, from) ==
    IF r.sent THEN Append(tr, Attempt(src, push, heap, resp, time, r, from)) ELSE tr

-----------------------------------------------------------------------------
(* LokiTask::retry_failed and LokiTask::retry_all_failed *)

\* retry_failed that does not look at retry_at.
retry_failed_NotDue(heap, resp, time, tr) ==
    IF heap = <<>>
    THEN [did |-> FALSE, dlq |-> heap, tr |-> tr]
    ELSE LET p == HeapPop(heap)
             r == submit_logs(p.item.push, p.data, resp, time)
         IN  [did |-> TRUE, dlq |-> r.dlq,
              tr |-> Noted(tr, "retry", p.item.push, p.data, resp, time, r,
                          FromQueue(p.item, p.data))]

\* retry_failed(dlq): whether it did something, the heap left, the attempts so far.
retry_failed(heap, resp, time, tr) ==
    IF heap = <<>> \/ heap[1].retry_at > time
    THEN [did |-> FALSE, dlq |-> heap, tr |-> tr]
    ELSE LET p == HeapPop(heap)
             r == submit_logs(p.item.push, p.data, resp, time)
         IN  [did |-> TRUE, dlq |-> r.dlq,
              tr |-> Noted(tr, "retry", p.item.push, p.data, resp, time, r,
                          FromQueue(p.item, p.data))]

\* The entries of the heap that are due at time.
Due(heap, time) == {i \in 1..Len(heap) : heap[i].retry_at <= time}

\* while self.retry_failed(&mut dlq) {}: the requests end as resps say, in order.
RECURSIVE RetryWhile(_, _, _, _)
RetryWhile(heap, resps, time, tr) ==
    LET r == retry_failed(heap, IF resps = <<>> THEN Ok ELSE Head(resps), time, tr)
    IN  IF r.did
        THEN RetryWhile(r.dlq, IF resps = <<>> THEN <<>> ELSE Tail(resps), time, r.tr)
        ELSE r

\* for v in dlq.drain() { submit_logs(&mut v.0.push.clone(), &mut t) }
RECURSIVE DrainInto(_, _, _, _, _)
DrainInto(items, t, resps, time, tr) ==
    IF items = <<>>
    THEN [dlq |-> t, tr |-> tr]
    ELSE LET v == Head(items)
             r == submit_logs(v.push, t, Head(resps), time)
         IN  DrainInto(Tail(items), r.dlq, Tail(resps), time,
                       Noted(tr, "forced", v.push, t, Head(resps), time, r,
                             FromQueue(v, Tail(items))))

\* retry_all_failed that leaves the heap as it is and submits nothing.
retry_all_failed_Skipped(heap, resps, time, tr) == [dlq |-> heap, tr |-> tr]

\* retry_all_failed that submits the entries that are due and keeps the others.
retry_all_failed_DueOnly(heap, resps, time, tr) ==
    DrainInto(SelectSeq(heap, LAMBDA v : v.retry_at <= time),
              SelectSeq(heap, LAMBDA v : v.retry_at > time), resps, time, tr)

retry_all_failed(heap, resps, time, tr) == DrainInto(heap, <<>>, resps, time, tr)

-----------------------------------------------------------------------------
(* LokiTask::run, one action per arm of the loop *)

Drop == [kind |-> "Drop", max_retries |-> 0]
Retry(max_retries) == [kind |-> "Retry", max_retries |-> max_retries]

\* The failure policies the engine is built with.
Policies == {Drop, Retry(0), Retry(1)}

\* The state when run enters its loop, for an engine built with one of the given
\* configurations and a run within the given bounds.
EngineInit(lines, lifetime, policies, checks, resets, bounds) ==
    /\ chan = <<>>
    /\ closed = FALSE
    /\ lp = EmptyPush
    /\ dlq = <<>>
    /\ flushed = FALSE
    /\ status = "running"
    /\ now = 0
    /\ max_log_lines \in lines
    /\ max_log_lifetime = lifetime
    /\ failure_policy \in policies
    /\ overflow_checks \in checks
    /\ reset_on_wake \in resets
    /\ waiting = [p \in Producers |-> 0]
    /\ nlogs = 0
    /\ nflush = 0
    /\ done = {}
    /\ returned = {}
    /\ last = NoStep
    /\ lim = bounds

\* The same, the formatter not yet called.
InitWith(lines, lifetime, policies, checks, resets, bounds) ==
    /\ EngineInit(lines, lifetime, policies, checks, resets, bounds)
    /\ formatter = LogfmtFormatter_default
    /\ attributes = EmptyMap
    /\ written = NoCall

\* The clock readings the engine can find when a wait ends before the timeout.
Readings == IF now < lim.time THEN {now, now + 1} ELSE {now}

\* recv_timeout has returned Err(Timeout) once more: the count of the timeouts that
\* follow one another with no message between them, modulo lim.ticks, which tells a
\* timeout from the one before it when the clock of the run has reached its bound.
Polled == (last.poll + 1) % lim.ticks

\* The clock readings the engine can find when a wait ends by the timeout.
TimeoutReadings ==
    IF lim.poll = 0 THEN Readings
    ELSE IF now + lim.poll <= lim.time THEN {now + lim.poll}
    ELSE {}

\* Ok(LokiTaskMsg::Log(time, log_line))
RecvLog(resp) ==
    /\ status = "running"
    /\ chan # <<>>
    /\ Head(chan).kind = "Log"
    /\ LET msg == Head(chan)
           pushed == [lp EXCEPT !.values = Append(@, <<msg.time, msg.id>>)]
           r == IF Len(pushed.values) = max_log_lines
                THEN submit_logs(pushed, dlq, resp, now)
                ELSE [lp |-> pushed, dlq |-> dlq, sent |-> FALSE]
       IN  /\ lp' = IF r.lp.first = None THEN [r.lp EXCEPT !.first = msg.time] ELSE r.lp
           /\ dlq' = r.dlq
           /\ last' = [op |-> "Log", msg |-> msg, poll |-> 0,
                       tr |-> Noted(<<>>, "open", pushed, dlq, resp, now, r, FromOpen)]
    /\ chan' = Tail(chan)
    /\ UNCHANGED <<closed, flushed, status, now, cfgvars, waiting, nlogs, nflush, done,
                   returned>>

\* submit_logs(&mut lp, &mut dlq); retry_all_failed(&mut dlq), of Flush and of closure.
SubmitAndRetryAll(op, msg, resp) ==
    LET r == submit_logs(lp, dlq, resp, now)
        tr == Noted(<<>>, "open", lp, dlq, resp, now, r, FromOpen)
    IN  \E resps \in [1..Len(r.dlq) -> Responses] :
           LET q == retry_all_failed(r.dlq, resps, now, tr)
           IN  /\ lp' = r.lp
               /\ dlq' = q.dlq
               /\ last' = [op |-> op, msg |-> msg, tr |-> q.tr, poll |-> 0]

\* Ok(LokiTaskMsg::Flush)
RecvFlush(resp) ==
    /\ status = "running"
    /\ chan # <<>>
    /\ Head(chan).kind = "Flush"
    /\ SubmitAndRetryAll("Flush", Head(chan), resp)
    /\ done' = done \cup {Head(chan).id}
    /\ flushed' = TRUE
    /\ chan' = Tail(chan)
    /\ UNCHANGED <<closed, status, now, cfgvars, waiting, nlogs, nflush, returned>>

\* The closure arm without its return: the loop goes on.
RecvClosed_Continues(resp) ==
    /\ status = "running"
    /\ chan = <<>>
    /\ closed
    /\ SubmitAndRetryAll("Closed", NoMsg, resp)
    /\ status' = status
    /\ UNCHANGED <<chan, closed, flushed, now, cfgvars, waiting, nlogs, nflush, done,
                   returned>>

\* Err(_): Closed and SendClosed
RecvClosed(resp) ==
    /\ status = "running"
    /\ chan = <<>>
    /\ closed
    /\ SubmitAndRetryAll("Closed", NoMsg, resp)
    /\ status' = "returned"
    /\ UNCHANGED <<chan, closed, flushed, now, cfgvars, waiting, nlogs, nflush, done,
                   returned>>

\* time - first_timestamp of the age check underflows: first lies after the clock.
Underflows(time) == lp.first # None /\ lp.first > time

\* The age check with a limit one second too long.
AgeExceeded_Late(time) ==
    /\ lp.first # None
    /\ IF lp.first > time THEN ~overflow_checks ELSE time - lp.first > max_log_lifetime + 1

\* time - first_timestamp > max_log_lifetime. A wrapped difference is at least
\* 2^128 - first, above every Duration in nanoseconds.
AgeExceeded(time) ==
    /\ lp.first # None
    /\ IF lp.first > time THEN ~overflow_checks ELSE time - lp.first > max_log_lifetime

\* Err(Timeout), then the age check submits the open batch and continues.
TimeoutSubmit(resp) ==
    /\ status = "running"
    /\ chan = <<>>
    /\ ~closed
    /\ \E time \in TimeoutReadings :
          /\ AgeExceeded(time)
          /\ LET r == submit_logs(lp, dlq, resp, time)
             IN  /\ lp' = r.lp
                 /\ dlq' = r.dlq
                 /\ last' = [op |-> "TimeoutSubmit", msg |-> NoMsg, poll |-> Polled,
                             tr |-> Noted(<<>>, "open", lp, dlq, resp, time, r, FromOpen)]
          /\ now' = time
    /\ UNCHANGED <<chan, closed, flushed, status, cfgvars, waiting, nlogs, nflush, done,
                   returned>>

\* Err(Timeout), then the subtraction of the age check panics.
TimeoutPanic ==
    /\ status = "running"
    /\ chan = <<>>
    /\ ~closed
    /\ \E time \in TimeoutReadings :
          /\ Underflows(time)
          /\ overflow_checks
          /\ now' = time
    /\ status' = "panicked"
    /\ last' = [op |-> "TimeoutPanic", msg |-> NoMsg, tr |-> <<>>, poll |-> Polled]
    /\ UNCHANGED <<chan, closed, lp, dlq, flushed, cfgvars, waiting, nlogs, nflush, done,
                   returned>>

\* Err(Timeout), the age check passes, then while self.retry_failed(&mut dlq) {}.
TimeoutRetry ==
    /\ status = "running"
    /\ chan = <<>>
    /\ ~closed
    /\ \E time \in TimeoutReadings :
          /\ ~Underflows(time)
          /\ ~AgeExceeded(time)
          /\ \E resps \in [1..Cardinality(Due(dlq, time)) -> Responses] :
                LET q == RetryWhile(dlq, resps, time, <<>>)
                IN  /\ dlq' = q.dlq
                    /\ last' = [op |-> "TimeoutRetry", msg |-> NoMsg, tr |-> q.tr,
                                poll |-> Polled]
          /\ now' = time
    /\ UNCHANGED <<chan, closed, lp, flushed, status, cfgvars, waiting, nlogs, nflush,
                   done, returned>>

-----------------------------------------------------------------------------
(* The producers: send_log, flush and the drop of the logger *)

\* The clock readings at which a message can arrive: time passes while the engine
\* waits on the empty channel.
Arrivals == IF chan = <<>> THEN Readings ELSE {now}

\* send_log: Log(time, line), the time read by the producer, whose clock may run
\* ahead of the engine's by skew.
SendLog(p, skew) ==
    /\ status = "running"
    /\ ~closed
    /\ waiting[p] = 0
    /\ nlogs < lim.logs
    /\ \E t \in Arrivals :
          /\ now' = t
          /\ chan' = Append(chan, LogMsg(t + skew, nlogs + 1))
    /\ nlogs' = nlogs + 1
    /\ last' = NoStep
    /\ UNCHANGED <<closed, lp, dlq, flushed, status, cfgvars, waiting, nflush, done,
                   returned>>

\* flush(): send Flush, then wait on flush_notif.
CallFlush(p) ==
    /\ status = "running"
    /\ ~closed
    /\ waiting[p] = 0
    /\ nflush < lim.flushes
    /\ \E t \in Arrivals :
          /\ now' = t
          /\ chan' = Append(chan, FlushMsg(nflush + 1, nlogs))
    /\ nflush' = nflush + 1
    /\ waiting' = [waiting EXCEPT ![p] = nflush + 1]
    /\ last' = NoStep
    /\ UNCHANGED <<closed, lp, dlq, flushed, status, cfgvars, nlogs, done, returned>>

\* flush() finds the flag set and returns.
FlushReturn(p) ==
    /\ waiting[p] # 0
    /\ flushed
    /\ returned' = returned \cup {waiting[p]}
    /\ waiting' = [waiting EXCEPT ![p] = 0]
    /\ flushed' = IF reset_on_wake THEN FALSE ELSE flushed
    /\ last' = NoStep
    /\ UNCHANGED <<chan, closed, lp, dlq, status, now, cfgvars, nlogs, nflush, done>>

\* The last sender is dropped.
DropSenders ==
    /\ status = "running"
    /\ ~closed
    /\ \A p \in Producers : waiting[p] = 0
    /\ closed' = TRUE
    /\ last' = NoStep
    /\ UNCHANGED <<chan, lp, dlq, flushed, status, now, cfgvars, waiting, nlogs, nflush,
                   done, returned>>

-----------------------------------------------------------------------------
(* The engine with producers whose clocks agree with its own *)

\* A run within the bounds, the clock in units of u.
Run(logs, flushes, time, resps, u) ==
    [logs |-> logs, flushes |-> flushes, time |-> time, resps |-> resps,
     second |-> u.second, poll |-> u.poll, ticks |-> 1]

\* max_log_lifetime is one second.
Init ==
    InitWith(LineLimits, Seconds.second, Policies, {FALSE}, {FALSE},
             Run(MaxLogs, MaxFlushes, MaxTime, Backend, Seconds))

Next ==
    \/ \E resp \in Responses : RecvLog(resp)
    \/ \E resp \in Responses : RecvFlush(resp)
    \/ \E resp \in Responses : RecvClosed(resp)
    \/ \E resp \in Responses : TimeoutSubmit(resp)
    \/ TimeoutRetry
    \/ \E p \in Producers : SendLog(p, 0)
    \/ \E p \in Producers : CallFlush(p)
    \/ \E p \in Producers : FlushReturn(p)
    \/ DropSenders

Spec == Init /\ [][Next]_vars

-----------------------------------------------------------------------------
(* The engine thread keeps running: whenever the loop can take a step (a    *)
(* message, the closure or the timeout is there to be received) it takes    *)
(* one, every HTTP call returning.                                          *)

Engine ==
    \/ \E resp \in Responses : RecvLog(resp)
    \/ \E resp \in Responses : RecvFlush(resp)
    \/ \E resp \in Responses : RecvClosed(resp)
    \/ \E resp \in Responses : TimeoutSubmit(resp)
    \/ TimeoutRetry

\* max_log_lifetime is zero: a batch is aged at the first clock reading after its own.
InitClose ==
    InitWith({1}, 0, {Retry(1)}, {FALSE}, {FALSE},
             Run(CloseLogs, CloseFlushes, CloseTime, {Ok, StatusCode(503)}, Seconds))

SpecClose == InitClose /\ [][Next]_vars /\ WF_vars(Engine)

-----------------------------------------------------------------------------
(* The flush handshake: two flush() calls, from one producer or from two *)

InitFlush ==
    InitWith({2}, Seconds.second, {Retry(1)}, {FALSE}, BOOLEAN,
             Run(1, FlushCalls, MaxTime, Backend, Seconds))

SpecFlush == InitFlush /\ [][Next]_vars

-----------------------------------------------------------------------------
(* The age check: the clock in units of the receive timeout, max_log_lifetime *)
(* of one unit (250 ms), a size limit the run does not reach and a backend    *)
(* that accepts every request                                                 *)

InitAge ==
    InitWith({AgeLogs + 1}, Quarters.poll, {Retry(1)}, {FALSE}, {FALSE},
             Run(AgeLogs, 1, AgeTime, {Ok}, Quarters))

SpecAge == InitAge /\ [][Next]_vars

-----------------------------------------------------------------------------
(* The classification of failures: one Log, one Flush, and a backend that *)
(* fails in every way                                                     *)

StatusCodes == 400..MaxCode

Failures == {Transport, SerializeErr} \cup {StatusCode(code) : code \in StatusCodes}

InitClassify ==
    InitWith({1}, Seconds.second, {Retry(1)}, {FALSE}, {FALSE},
             Run(1, 1, 0, {Ok} \cup Failures, Seconds))

NextClassify ==
    \/ \E resp \in Responses : RecvLog(resp)
    \/ \E resp \in Responses : RecvFlush(resp)
    \/ \E p \in Producers : SendLog(p, 0)
    \/ \E p \in Producers : CallFlush(p)
    \/ \E p \in Producers : FlushReturn(p)

SpecClassify == InitClassify /\ [][NextClassify]_vars

-----------------------------------------------------------------------------
(* The order of retries: batches of two lines, a backend that accepts a request *)
(* or fails it transiently, and enough messages to queue three failed batches   *)

InitOrder ==
    InitWith({2}, Seconds.second, {Retry(1)}, {FALSE}, {FALSE},
             Run(OrderLogs, OrderFlushes, OrderTime, {Ok, StatusCode(503)}, Seconds))

SpecOrder == InitOrder /\ [][Next]_vars

-----------------------------------------------------------------------------
(* The size limit alone: Log messages only, a backend that accepts every      *)
(* request and a max_log_lifetime that no batch of the run outlives, so that  *)
(* every timeout finds nothing to do                                          *)

InitSize ==
    InitWith(LineLimits, SizeTime, Policies, {FALSE}, {FALSE},
             Run(SizeLogs, 0, SizeTime, {Ok}, Seconds))

NextSize ==
    \/ \E resp \in Responses : RecvLog(resp)
    \/ TimeoutRetry
    \/ \E p \in Producers : SendLog(p, 0)

SpecSize == InitSize /\ [][NextSize]_vars

-----------------------------------------------------------------------------
(* Timestamps ahead of the clock: a Log message may carry a time later than  *)
(* the reading the engine takes afterwards (SystemTime is not monotonic), in *)
(* a build with overflow checks or without                                   *)

InitSkew ==
    InitWith({2}, Seconds.second, {Retry(1)}, BOOLEAN, {FALSE},
             Run(SkewLogs, 1, SkewTime, Backend, Seconds))

NextSkew ==
    \/ \E resp \in Responses : RecvLog(resp)
    \/ \E resp \in Responses : RecvFlush(resp)
    \/ \E resp \in Responses : RecvClosed(resp)
    \/ \E resp \in Responses : TimeoutSubmit(resp)
    \/ TimeoutPanic
    \/ TimeoutRetry
    \/ \E p \in Producers, skew \in 0..MaxSkew : SendLog(p, skew)
    \/ \E p \in Producers : CallFlush(p)
    \/ \E p \in Producers : FlushReturn(p)
    \/ DropSenders

SpecSkew == InitSkew /\ [][NextSkew]_vars

-----------------------------------------------------------------------------
(* The formatter alone: the engine is at its initial state and takes no step *)

Idle ==
    EngineInit({1}, Seconds.second, {Drop}, {FALSE}, {FALSE}, Run(0, 0, 0, {Ok}, Seconds))

\* The strings of at most n characters among chars.
Strings(chars, n) == UNION {[1..m -> chars] : m \in 0..n}

\* Keys with and without the characters that a key may not have.
Keys == Strings({"a", " ", "=", "\""}, MaxKeyLen)

\* Two values that write_pair leaves as they are.
PlainValues == {<<"x">>, <<"y">>}

\* Pairs written one after the other into one map.
InitKeys ==
    /\ Idle
    /\ formatter = LogfmtFormatter_default
    /\ attributes = EmptyMap
    /\ written = NoCall

NextKeys == \E key \in Keys, val \in PlainValues : WritePair(key, val)

SpecKeys == InitKeys /\ [][NextKeys]_vars

\* Values with and without the characters that write_pair treats apart.
Values == Strings({"a", "\\", "\"", " ", "=", "\n", "\r", "\t", "\f"}, MaxValLen)

\* One pair written into a new map, with escape_newlines set or not.
InitValues ==
    /\ Idle
    /\ formatter \in {LogfmtFormatter_new(LogfmtAutoFields_default, e) : e \in BOOLEAN}
    /\ attributes = EmptyMap
    /\ written = NoCall

WriteFirst == \E val \in Values : attributes = EmptyMap /\ WritePair(<<"k">>, val)

NextValues ==
    \/ WriteFirst
    \/ NewAttributes

SpecValues == InitValues /\ [][NextValues]_vars

\* Records with and without each optional field, the message empty, plain or with
\* a space in it.
Records ==
    [level : {<<"i", "n", "f", "o">>},
     message : {<<>>, <<"h", "i">>, <<"l", "o", "g", " ", "m", "s", "g">>},
     target : {<<>>, <<"t", "g", "t">>},
     module : {NoStr, SomeStr(<<"m", "o", "d">>)},
     file : {NoStr, SomeStr(<<"f", ".", "r", "s">>)},
     line : {NoStr, SomeStr(<<"1">>)}]

\* attributes called on a formatter built with any set of fields.
InitFields ==
    /\ Idle
    /\ formatter \in {LogfmtFormatter_new(f, e) : f \in SUBSET LogfmtAutoFields,
                                                  e \in BOOLEAN}
    /\ attributes = EmptyMap
    /\ written = NoCall

NextFields == \E rec \in Records : Attributes(rec)

SpecFields == InitFields /\ [][NextFields]_vars

-----------------------------------------------------------------------------
(* Properties *)

\* The delivery attempts of the engine step just taken.
Attempts == {last.tr[i] : i \in DOMAIN last.tr}

Failed(a) == a.resp.kind # "ok"

\* A failed request that the specification calls permanent: a status error that is
\* neither 408 nor 429 nor a 5xx.
Permanent(resp) ==
    resp.kind = "status" /\ resp.code \notin {408, 429} /\ resp.code < 500

\* The attempt left the retry heap one entry longer.
Pushed(a) == Len(a.dlqAfter) = Len(a.dlqBefore) + 1

CountIn(seq, x) == Cardinality({i \in DOMAIN seq : seq[i] = x})
PushesOf(heap) == [i \in DOMAIN heap |-> heap[i].push]
Tried(tr) == [i \in DOMAIN tr |-> tr[i].push]

\* C1: each time the engine has finished handling a Log message, the open batch
\* holds at most max_log_lines entries.
C1_OpenBatchWithinLimit ==
    last.op = "Log" => Len(lp.values) <= max_log_lines

\* C2: under Retry(max_retries) a batch lineage gets at most max_retries + 1
\* delivery attempts: no batch that has already failed max_retries + 1 times is
\* submitted again, and the failure of attempt max_retries + 1 schedules nothing.
C2_RetryBudget ==
    failure_policy.kind = "Retry" =>
        \A a \in Attempts :
            /\ a.push.failures + 1 <= failure_policy.max_retries + 1
            /\ (Failed(a) /\ a.push.failures + 1 = failure_policy.max_retries + 1)
                   => ~Pushed(a)

\* C3: after a failed submission of the open batch, the open batch is reset when
\* the failure handler returns: no entries, first_timestamp unset.
C3_OpenBatchResetOnFailure ==
    \A a \in Attempts :
        (a.src = "open" /\ Failed(a)) =>
            (a.lpAfter.values = <<>> /\ a.lpAfter.first = None)

\* C4: when a submission fails and the policy is Drop or the failure is not
\* transient, the retry heap is the same after the failure handler as before.
C4_NoPushOnDropOrPermanent ==
    \A a \in Attempts :
        (Failed(a) /\ (failure_policy.kind = "Drop" \/ Permanent(a.resp)))
            => a.dlqAfter = a.dlqBefore

\* C4, its case: under a Retry policy a permanent failure, with entries queued.
C4_Witness ==
    \E a \in Attempts :
        /\ failure_policy.kind = "Retry"
        /\ Permanent(a.resp)
        /\ a.dlqBefore # <<>>

\* C5: when the engine raises the flush signal for a Flush message, no Log message
\* sent before that Flush is still in the channel, and the batch that was open when
\* the Flush was received (if it has entries) and every entry the retry heap held
\* then have each been submitted in this step.
C5_FlushAttemptsEverything ==
    [][ (last'.op = "Flush" /\ done' # done) =>
            /\ flushed'
            /\ \A i \in DOMAIN chan' :
                  chan'[i].kind = "Log" => chan'[i].id > last'.msg.logs
            /\ lp.values # <<>> => CountIn(Tried(last'.tr), lp) >= 1
            /\ \A i \in DOMAIN dlq :
                  CountIn(Tried(last'.tr), dlq[i].push)
                      >= CountIn(PushesOf(dlq), dlq[i].push) ]_vars

\* C5, its case: a Flush sent after a Log, handled with an open batch that has
\* entries and a retry heap that is not empty.
C5_Witness ==
    /\ last.op = "Flush"
    /\ last.msg.logs >= 1
    /\ \E a \in Attempts : a.src = "open" /\ a.push.values # <<>>
    /\ \E a \in Attempts : a.src = "forced" /\ a.push.failures = 1

\* C8: at a receive timeout at which now - first_timestamp > max_log_lifetime for an
\* open batch that has entries, the engine makes one delivery attempt, of the open
\* batch with all its entries, with no message received.
C8_AgedBatchSubmittedAtTimeout ==
    [][ ( /\ last'.op \in {"TimeoutSubmit", "TimeoutRetry", "TimeoutPanic"}
          /\ lp.values # <<>>
          /\ lp.first # None
          /\ now' - lp.first > max_log_lifetime )
        => ( /\ Len(last'.tr) = 1
             /\ last'.tr[1].src = "open"
             /\ last'.tr[1].push.values = lp.values
             /\ last'.tr[1].at = now'
             /\ chan' = chan ) ]_vars

\* C8, its case: the timeout has submitted an open batch of two entries, the first
\* of them older than max_log_lifetime.
C8_Witness ==
    /\ last.op = "TimeoutSubmit"
    /\ \E a \in Attempts :
          /\ Len(a.push.values) = 2
          /\ a.at - a.push.first > max_log_lifetime

\* The entry an attempt has pushed onto the retry heap: the heap after the attempt
\* is the heap before it and this entry.
IsPushedBy(a, e) ==
    /\ CountIn(a.dlqAfter, e) = CountIn(a.dlqBefore, e) + 1
    /\ \A i \in DOMAIN a.dlqBefore :
          a.dlqBefore[i] # e =>
              CountIn(a.dlqAfter, a.dlqBefore[i]) = CountIn(a.dlqBefore, a.dlqBefore[i])

\* C9: whenever a batch is pushed onto the retry heap, its failures counter is one
\* more than at the failed attempt, its retry_at is the clock at the push plus
\* 2^failures seconds, later than the push, and its entries are those submitted;
\* an open batch is at its first failure. This holds for every source of the attempt.
C9_BackoffOnPush ==
    \A a \in Attempts :
        /\ a.src = "open" => a.push.failures = 0
        /\ Pushed(a) =>
              \E i \in DOMAIN a.dlqAfter :
                  LET e == a.dlqAfter[i]
                  IN  /\ IsPushedBy(a, e)
                      /\ e.push.values = a.push.values
                      /\ e.push.failures = a.push.failures + 1
                      /\ e.retry_at = a.at + (2 ^ e.push.failures) * NanosPerSec
                      /\ e.retry_at > a.at

\* C9, its case: a batch retried from the heap when due fails a second time and is
\* pushed back.
C9_Witness ==
    \E a \in Attempts :
        /\ a.src = "retry"
        /\ a.push.failures = 1
        /\ Pushed(a)

\* C6: a flush() call returns only after the engine has finished that call's own
\* Flush message.
C6_FlushReturnsAfterOwnFlush ==
    returned \subseteq done

\* C7: an open batch whose age has exceeded max_log_lifetime is submitted within one
\* polling interval: with a backend that accepts every request, no batch is still
\* open at a clock reading more than max_log_lifetime plus one polling interval
\* after its first_timestamp.
C7_AgedBatchSubmittedWithinPoll ==
    (lp.values # <<>> /\ lp.first # None)
        => now - lp.first <= max_log_lifetime + lim.poll

\* The classification the specification gives: a non-status error, 408, 429, 5xx.
SpecifiedTransient(resp) ==
    \/ resp.kind = "transport"
    \/ resp.kind = "status" /\ (resp.code \in {408, 429} \/ resp.code \in 500..599)

\* A failed request of a batch that the Retry policy still lets retry.
HttpFailure(a) ==
    /\ a.resp.kind \in {"status", "transport"}
    /\ failure_policy.kind = "Retry"
    /\ a.push.failures <= failure_policy.max_retries

C11_RetriesInAscendingOrder ==
    \A a \in Attempts :
        a.src \in {"retry", "forced"} =>
            \A j \in DOMAIN a.queued :
                a.queued[j].retry_at <= a.at => a.retry_at <= a.queued[j].retry_at

\* The attempts of a step that were made from src, in order.
From(tr, src) == SelectSeq(tr, LAMBDA a : a.src = src)

\* C12: once the channel is closed the engine consumes the messages already sent,
\* then in one step submits the open batch once (when it has a first_timestamp),
\* makes one forced pass, of one attempt for each entry then queued, and returns;
\* it always gets there, whatever the requests answer, and after it has returned
\* nothing is attempted any more, whatever the final pass left queued.
C12_FinalPassThenTerminates ==
    /\ closed ~> status = "returned"
    /\ [][ last'.op = "Closed" =>
              /\ closed /\ chan = <<>>
              /\ status' = "returned"
              /\ Len(From(last'.tr, "open")) = (IF lp.first # None THEN 1 ELSE 0)
              /\ \A i \in DOMAIN From(last'.tr, "open") :
                    From(last'.tr, "open")[i].push = lp
              /\ Len(From(last'.tr, "forced"))
                    = Len(dlq) + Cardinality({i \in DOMAIN last'.tr :
                                                 last'.tr[i].src = "open" /\ Pushed(last'.tr[i])})
              /\ Len(From(last'.tr, "retry")) = 0 ]_vars
    /\ [][ status = "returned" => (last' = last /\ lp' = lp /\ dlq' = dlq) ]_vars

\* C12, its case: the engine has returned from a final pass in which a queued entry
\* failed again and was queued anew, to be discarded with the heap.
C12_Witness ==
    /\ status = "returned"
    /\ last.op = "Closed"
    /\ \E a \in Attempts : a.src = "forced" /\ Pushed(a)
    /\ dlq # <<>>

\* The lines of a batch, by their numbers.
LinesOf(values) == [i \in DOMAIN values |-> values[i][2]]

\* C13: with every request accepted and neither an age timeout nor a Flush, the
\* k-th Log message is the one that fills a batch exactly when max_log_lines
\* divides k, and then it is submitted at once with the max_log_lines lines
\* k - max_log_lines + 1 .. k in arrival order and the open batch is left empty;
\* otherwise nothing is submitted and the open batch holds the last
\* k mod max_log_lines lines. After k messages, then, floor(k / max_log_lines)
\* batches have been submitted.
C13_SizeTriggeredBatches ==
    last.op = "Log" =>
        LET k == last.msg.id
            n == max_log_lines
        IN  IF k % n = 0
            THEN /\ Len(last.tr) = 1
                 /\ LinesOf(last.tr[1].push.values) = [i \in 1..n |-> k - n + i]
                 /\ lp.values = <<>>
            ELSE /\ last.tr = <<>>
                 /\ LinesOf(lp.values) = [i \in 1..(k % n) |-> k - (k % n) + i]

\* C14: the engine thread never ends in a panic, whatever the messages, their
\* timestamps and the answers of the backend: it stops only by returning on closure.
C14_NoFatalState ==
    status # "panicked"

\* key without the characters of bad, in order.
RECURSIVE Without(_, _)
Without(key, bad) ==
    IF key = <<>> THEN <<>>
    ELSE IF Head(key) \in bad THEN Without(Tail(key), bad)
    ELSE <<Head(key)>> \o Without(Tail(key), bad)

\* C15: write_pair stores the pair under the key with every space, '=' and '"'
\* removed, or under "_" when nothing is left; when that key is already in the map
\* the map is left as it was, the first value kept; otherwise the pair is added and
\* every other pair is left as it was.
C15_KeyNormalized ==
    [][ written'.op = "write_pair" =>
            LET stripped == Without(written'.key, {" ", "=", "\""})
                key == IF stripped = <<>> THEN <<"_">> ELSE stripped
            IN  /\ DOMAIN attributes' = DOMAIN attributes \cup {key}
                /\ \A k \in DOMAIN attributes : attributes'[k] = attributes[k]
                /\ key \notin DOMAIN attributes => attributes'[key] = written'.val ]_vars

\* C15, its case: a key made only of characters it may not have is written when
\* "_" is already in the map with another value, and that value is kept.
C15_Witness ==
    /\ written.op = "write_pair"
    /\ written.key = <<" ", "=">>
    /\ <<"_">> \in DOMAIN attributes
    /\ attributes[<<"_">>] # written.val
    /\ <<"a">> \in DOMAIN attributes

\* The characters of val are all outside chars.
Free(val, chars) == \A i \in DOMAIN val : val[i] \notin chars

\* val with '"' and '\' preceded by a backslash and the form feed replaced by its
\* escape sequence.
RECURSIVE Escaped(_)
Escaped(val) ==
    IF val = <<>> THEN <<>>
    ELSE (CASE Head(val) \in {"\"", "\\"} -> <<"\\", Head(val)>>
            [] Head(val) = "\f" -> <<"\\", "u", "{", "c", "}">>
            [] OTHER -> <<Head(val)>>) \o Escaped(Tail(val))

\* C16: the value write_pair stores for a value with a '"', a '\', a space or a
\* control character other than newline, carriage return and tab is the value
\* between an opening and a closing double quote, with '"' and '\' preceded by a
\* backslash and the control character replaced by its escape sequence; a value
\* with no character that write_pair treats apart is stored as it is. (Values with
\* a newline, a carriage return or a tab are left out.)
C16_ValueEscaped ==
    (written.op = "write_pair" /\ Free(written.val, {"\n", "\r", "\t"})) =>
        \A k \in DOMAIN attributes :
            IF ~Free(written.val, {"\"", "\\", " ", "\f"})
            THEN attributes[k] = <<"\"">> \o Escaped(written.val) \o <<"\"">>
            ELSE Free(written.val, {"="}) => attributes[k] = written.val

\* The value a record has for a field, if it has one: the message and the target
\* count as absent when empty.
ValueOf(rec, field) ==
    CASE field = "LEVEL" -> SomeStr(rec.level)
      [] field = "MESSAGE" -> IF rec.message = <<>> THEN NoStr ELSE SomeStr(rec.message)
      [] field = "TARGET" -> IF rec.target = <<>> THEN NoStr ELSE SomeStr(rec.target)
      [] field = "MODULE_PATH" -> rec.module
      [] field = "FILE" -> rec.file
      [] field = "LINE" -> rec.line

\* The fields that are selected in include_fields and present in the record.
Written(rec) ==
    {field \in formatter.include_fields : ValueOf(rec, field).some}

\* The keys of the map are those of the fields selected and present; with the
\* default fields and a record that has a module they are level and module.
KeysAsSelected ==
    /\ DOMAIN attributes = {FieldKey[field] : field \in Written(written.rec)}
    /\ (formatter.include_fields = LogfmtAutoFields_default /\ written.rec.module.some)
           => DOMAIN attributes = {<<"l", "e", "v", "e", "l">>,
                                   <<"m", "o", "d", "u", "l", "e">>}

Occurrences(heap, e) == Cardinality({i \in DOMAIN heap : heap[i] = e})

\* C18: outside Flush and closure an entry of the retry heap is resubmitted only
\* when it is due. In the drain of a timeout each retry_failed that finds the heap
\* empty or its minimum not due ends the drain with the heap as it is and nothing
\* attempted; each other one pops exactly one entry, the minimum, which is due, and
\* resubmits it: so the drain attempts exactly the entries that were due, once
\* each. A Log message and the age check resubmit nothing from the heap.
C18_RetryOnlyWhenDue ==
    [][ /\ last'.op \in {"Log", "TimeoutSubmit"} =>
              \A i \in DOMAIN last'.tr : last'.tr[i].src = "open"
        /\ last'.op = "TimeoutRetry" =>
              LET tr == last'.tr
                  due == Due(dlq, now')
                  before(i) == IF i = 1 THEN dlq ELSE tr[i - 1].dlqAfter
              IN  /\ Len(tr) = Cardinality(due)
                  /\ due = {} => dlq' = dlq
                  /\ \A i \in DOMAIN tr :
                        /\ tr[i].src = "retry"
                        /\ tr[i].at = now'
                        /\ tr[i].retry_at <= now'
                        /\ \A j \in DOMAIN before(i) : tr[i].retry_at <= before(i)[j].retry_at
                        /\ Len(tr[i].dlqBefore) = Len(before(i)) - 1
                        /\ \E j \in due : dlq[j].push = tr[i].push
                  /\ \A j \in DOMAIN dlq :
                        j \notin due => Occurrences(dlq', dlq[j]) >= Occurrences(dlq, dlq[j]) ]_vars

\* C18, its case: a drain that has found two entries queued, one due and one not,
\* has resubmitted the first and left the second.
C18_Witness ==
    /\ last.op = "TimeoutRetry"
    /\ Len(last.tr) = 1
    /\ last.tr[1].queued # <<>>
    /\ \A j \in DOMAIN last.tr[1].queued : last.tr[1].queued[j].retry_at > now

\* The retry heap when the forced pass of a step starts: the heap before the step,
\* with what the submission of the open batch has pushed.
AtPassStart(tr, heap) ==
    IF From(tr, "open") = <<>> THEN heap ELSE From(tr, "open")[1].dlqAfter

\* C19: the forced pass of Flush and of closure makes exactly one attempt for each
\* entry queued when it starts, due or not, into a new heap, and none for an entry
\* queued during the pass; the heap it leaves holds exactly the entries that failed
\* again and were queued anew by the failure handler, one for each such attempt.
C19_ForcedPassAttemptsEachOnce ==
    [][ last'.op \in {"Flush", "Closed"} =>
            LET start == AtPassStart(last'.tr, dlq)
                forced == From(last'.tr, "forced")
                requeued == {k \in DOMAIN forced : Pushed(forced[k])}
            IN  /\ Len(forced) = Len(start)
                /\ \A i \in DOMAIN start :
                      CountIn(Tried(forced), start[i].push)
                          = CountIn(PushesOf(start), start[i].push)
                /\ forced # <<>> => forced[1].dlqBefore = <<>>
                /\ \A k \in DOMAIN forced :
                      /\ forced[k].at = now
                      /\ Pushed(forced[k]) => Failed(forced[k])
                      /\ k > 1 => forced[k].dlqBefore = forced[k - 1].dlqAfter
                /\ Len(dlq') = Cardinality(requeued)
                /\ \A i \in DOMAIN dlq' :
                      \E k \in requeued :
                          /\ IsPushedBy(forced[k], dlq'[i])
                          /\ dlq'[i].push.values = forced[k].push.values
                          /\ dlq'[i].push.failures = forced[k].push.failures + 1 ]_vars

\* C19, its case: a forced pass over two entries, neither of them due, of which
\* one was delivered and the other failed again and was queued anew.
C19_Witness ==
    /\ last.op = "Flush"
    /\ Len(From(last.tr, "forced")) = 2
    /\ \A a \in Attempts : a.src = "forced" => a.retry_at > a.at
    /\ \E a \in Attempts : a.src = "forced" /\ ~Failed(a)
    /\ \E a \in Attempts : a.src = "forced" /\ Pushed(a)
    /\ Len(dlq) = 1

\* C20: every delivery attempt, whatever triggers it, carries at least one log
\* entry: no batch without entries is submitted.
C20_NoEmptySubmission ==
    \A a \in Attempts : a.push.values # <<>>

\* C21: each time the engine has finished handling a message or a timeout, the
\* open batch has a first_timestamp exactly when it has entries, and then it is the
\* timestamp of the first entry.
C21_FirstIffEntries ==
    last.op # "none" =>
        /\ lp.first # None <=> lp.values # <<>>
        /\ lp.values # <<>> => lp.first = lp.values[1][1]

-----------------------------------------------------------------------------
(* The idle engine: the channel is never closed and nobody calls flush(), so *)
(* the receive timeout fires again and again                                 *)

PollLogs == 2
PollTime == 3

\* The bounds of a run in which one timeout is told from the next.
Polling(run) == [run EXCEPT !.ticks = 2]

\* max_log_lifetime is zero; the backend answers 2xx, 503 (transient) or 400 (permanent).
InitPoll ==
    InitWith(LineLimits, 0, Policies, {FALSE}, {FALSE},
             Polling(Run(PollLogs, 0, PollTime, {Ok, StatusCode(503), StatusCode(400)},
                         Seconds)))

\* The loop of run while the channel is open: a Log message or the timeout.
EngineOpen ==
    \/ \E resp \in Responses : RecvLog(resp)
    \/ \E resp \in Responses : TimeoutSubmit(resp)
    \/ TimeoutRetry

NextPoll ==
    \/ EngineOpen
    \/ \E p \in Producers : SendLog(p, 0)

\* The thread keeps running: recv_timeout returns after 250 ms at the latest and every
\* HTTP call returns, with whatever outcome.
SpecPoll == InitPoll /\ [][NextPoll]_vars /\ WF_vars(EngineOpen)

\* C22: while the channel stays open and the timeout keeps firing, a queued entry whose
\* retry_at has passed (the root of the heap, the earliest, is then due) is eventually
\* followed by a resubmission from the queue, whatever the outcomes of the submissions
\* of the open batch.
C22_DueEntryEventuallyRetried ==
    (dlq # <<>> /\ dlq[1].retry_at <= now)
        ~> (\E a \in Attempts : a.src \in {"retry", "forced"})

====
